---- MODULE Spec2Model ----
(***************************************************************************)
(* Model of rust-anaconda (src/src/lib.rs): the configuration search of    *)
(* lookup_project_file / resolve_config / match_cli_path_or_file, the      *)
(* orchestration of execute / process_summary, and the C string bridge     *)
(* (to_c_str, get_version, free_c_char_mem, format).                       *)
(*                                                                         *)
(* Paths are sequences of components; the root directory is <<>>.  An      *)
(* Option<T> is a sequence of length 0 (None) or 1 (Some).                 *)
(***************************************************************************)
EXTENDS Integers, Sequences, FiniteSets, TLC

\* ------------------------------------------------------------------ bounds
MaxDepth == 2      \* depth of the directory tree below the root
MaxLen == 1        \* number of components of a caller-supplied path
MaxVerLen == 2     \* length of the version string of a build
MaxAddr == 3       \* number of heap addresses the allocator can hand out

\* ---------------------------------------------------------- paths and files
Names == {"a", "b"}
ConfigName == "rustfmt.toml"
ParentComp == ".."
None == <<>>
Some(x) == <<x>>

SeqsUpTo(S, n) == UNION {[1..k -> S] : k \in 0..n}
Front(s) == SubSeq(s, 1, Len(s) - 1)
Last(s) == s[Len(s)]

\* The directories that exist whatever the call observes: the complete tree
\* of depth MaxDepth over Names.
Dirs == SeqsUpTo(Names, MaxDepth)

\* What fs::metadata can report for <dir>/rustfmt.toml.
Kinds == {"absent", "file", "dir", "denied"}

\* Paths a caller can pass: absolute or relative, with ".." segments, and
\* possibly naming the entry rustfmt.toml itself.
InputPaths ==
  {[abs |-> a, comps |-> c \o t] :
      a \in BOOLEAN,
      c \in SeqsUpTo(Names \cup {ParentComp}, MaxLen),
      t \in {<<>>, <<ConfigName>>}}

AbsPath(comps) == [abs |-> TRUE, comps |-> comps]

\* Path::is_relative
is_relative(p) == ~p.abs

\* Path::join: an absolute argument replaces the receiver
join(base, p) == IF p.abs THEN p ELSE [abs |-> base.abs, comps |-> base.comps \o p.comps]

\* Path::parent: None for the root and for the empty path
parent(p) == IF p.comps = <<>> THEN None ELSE Some([abs |-> p.abs, comps |-> Front(p.comps)])

\* pop_ok as if every directory had a parent
pop_ok_always(cur) == TRUE

\* PathBuf::pop on a canonical path: pop_ok is the value of the call (false
\* when there is no parent), pop the path after it (unchanged in that case)
pop_ok(cur) == cur # <<>>
pop(cur) == IF cur = <<>> THEN cur ELSE Front(cur)

\* The observed kind of <d>/rustfmt.toml, "unknown" when not yet observed.
KindOf(f, d) == IF d \in DOMAIN f THEN f[d] ELSE "unknown"

\* Is the canonical path n an existing directory, given the observations f?
IsDir(f, n) ==
  \/ n \in Dirs
  \/ /\ n # <<>>
     /\ Last(n) = ConfigName
     /\ Front(n) \in Dirs
     /\ KindOf(f, Front(n)) = "dir"

OkPath(p) == [tag |-> "Ok", path |-> Some(p), err |-> ""]
OkNone == [tag |-> "Ok", path |-> None, err |-> ""]
Err(e) == [tag |-> "Err", path |-> None, err |-> e]
Pending == [tag |-> "Pending", path |-> None, err |-> ""]

\* fs::canonicalize of an absolute path: resolves the components left to
\* right, ".." goes to the parent (the root is its own parent), and every
\* component must exist.
RECURSIVE Canon(_, _, _)
Canon(f, acc, rest) ==
  IF rest = <<>> THEN OkPath(acc)
  ELSE LET c == Head(rest)
           n == Append(acc, c)
       IN  IF c = ParentComp THEN Canon(f, pop(acc), Tail(rest))
           ELSE IF IsDir(f, n) THEN Canon(f, n, Tail(rest))
           ELSE IF c = ConfigName /\ acc \in Dirs /\ KindOf(f, acc) = "file" /\ Tail(rest) = <<>>
                THEN OkPath(n)
           ELSE IF c = ConfigName /\ acc \in Dirs /\ KindOf(f, acc) = "denied"
                THEN Err("PermissionDenied")
           ELSE Err("NotFound")

canonicalize(f, p) == Canon(f, <<>>, p.comps)

\* The directory whose rustfmt.toml entry the path p names, when p names one
\* (relative paths are resolved against the working directory w).
TomlParent(f, w, p) ==
  IF p.comps = <<>> \/ Last(p.comps) # ConfigName THEN None
  ELSE IF is_relative(p) /\ w = None THEN None
  ELSE LET base == IF is_relative(p) THEN w[1] \o Front(p.comps) ELSE Front(p.comps)
           r == Canon(f, <<>>, base)
       IN  IF r.tag = "Ok" /\ r.path[1] \in Dirs THEN r.path ELSE None

\* The ancestor chain of a canonical directory, nearest first, root last.
RECURSIVE Chain(_)
Chain(d) == IF d = <<>> THEN <<d>> ELSE <<d>> \o Chain(Front(d))


\* metadata(<cur>/rustfmt.toml): the kinds the probe can report.  An entry
\* already observed in this call reports the same kind again; a component of
\* the probed path that is a regular file is an error other than NotFound.
metadata(f, cur) ==
  IF cur # <<>> /\ Last(cur) = ConfigName /\ KindOf(f, Front(cur)) = "file" THEN {"denied"}
  ELSE IF cur \in DOMAIN f THEN {f[cur]}
  ELSE Kinds

Observed(f, d, k) == IF d \in DOMAIN f THEN f ELSE (d :> k) @@ f

NoFs == [d \in {} |-> "absent"]

\* ------------------------------------------------------- formatter outcome
\* rustfmt::Summary, as far as process_summary reads it
Summaries == [operational : BOOLEAN, parsing : BOOLEAN, formatting : BOOLEAN]
NoSummary == [operational |-> FALSE, parsing |-> FALSE, formatting |-> FALSE]

has_operational_errors(s) == s.operational
has_parsing_errors(s) == s.parsing
has_formatting_errors(s) == s.formatting
has_no_errors(s) == ~(s.operational \/ s.parsing \/ s.formatting)

Status(c) == [kind |-> "status", code |-> c, at |-> ""]
Abort(where) == [kind |-> "abort", code |-> -1, at |-> where]
NoOutcome == [kind |-> "none", code |-> -1, at |-> ""]

\* process_summary testing the formatting errors before the parsing errors
process_summary_formatting_first(s, flushOk) ==
  LET branch == IF has_operational_errors(s) THEN Status(1)
                ELSE IF has_formatting_errors(s) THEN Status(3)
                ELSE IF has_parsing_errors(s) THEN Status(2)
                ELSE IF has_no_errors(s) THEN Status(0)
                ELSE Abort("assert_no_errors")
  IN  IF branch.kind = "abort" THEN branch
      ELSE IF ~flushOk THEN Abort("flush")
      ELSE branch

\* process_summary: the status code by priority, the assertion of the last
\* branch, then the flush of standard output, whose failure panics.
process_summary(s, flushOk) ==
  LET branch == IF has_operational_errors(s) THEN Status(1)
                ELSE IF has_parsing_errors(s) THEN Status(2)
                ELSE IF has_formatting_errors(s) THEN Status(3)
                ELSE IF has_no_errors(s) THEN Status(0)
                ELSE Abort("assert_no_errors")
  IN  IF branch.kind = "abort" THEN branch
      ELSE IF ~flushOk THEN Abort("flush")
      ELSE branch

\* ------------------------------------------------------ resolution results
NotRun == [tag |-> "NotRun", cfg |-> "none", path |-> None, err |-> ""]
ResOk(c, p) == [tag |-> "Ok", cfg |-> c, path |-> p, err |-> ""]
ResErr(e) == [tag |-> "Err", cfg |-> "none", path |-> None, err |-> e]
NoConfig == [source |-> "none", write_mode |-> "none"]

\* c_str_to_safe_string without the assertion: a null pointer decodes to
\* the empty string
c_str_to_safe_string_unchecked(c_str) ==
  [panic |-> FALSE,
   str |-> IF c_str = None THEN Some([abs |-> FALSE, comps |-> <<>>]) ELSE Some(c_str[1])]

\* c_str_to_safe_string: the assertion on the pointer, then the decoding
c_str_to_safe_string(c_str) ==
  IF c_str = None THEN [panic |-> TRUE, str |-> None]
  ELSE [panic |-> FALSE, str |-> Some(c_str[1])]

\* ------------------------------------------------------------------- state
VARIABLES
  pc,           \* position of the current call
  entry,        \* entry point of the current call: "format" or "execute"
  code_ptr,     \* argument code of format: None is the null pointer, else Some
  path_ptr,     \* argument path of format, likewise; the bytes are in cfg_path
  cwd,          \* what env::current_dir() gives this call: None when it fails
  cfg_path,     \* execute's argument cfg_path
  config_path,  \* execute's local config_path, after normalisation
  tier,         \* which resolve_config call of match_cli_path_or_file runs
  dirArg,       \* argument dir of the running lookup_project_file
  start,        \* canonical directory the running search started from
  current,      \* local current of lookup_project_file
  probes,       \* directories probed by the running search, in order
  fs,           \* kind of <d>/rustfmt.toml for the entries observed so far
  lookupRes,    \* result of the running lookup_project_file
  explicitRes,  \* result of resolve_config(config_file)
  fallbackRes,  \* result of resolve_config(input_file)
  matchRes,     \* result of match_cli_path_or_file
  searched,     \* tiers whose search has been started, in order
  config,       \* the configuration handed to the formatter
  summary,      \* the Summary returned by run
  formatterRan, \* run has been called
  exec_ret,     \* value returned by execute
  outcome,      \* what the caller of the entry point gets
  version,      \* CARGO_PKG_VERSION of the build, None when not set
  heap,         \* the allocator's blocks, by address
  handed,       \* pointers the caller got from get_version and has not released
  lastFree,     \* the deallocation made by the last release
  misuse,       \* free_c_char_mem was given a pointer that is not live
  lastCall      \* the last call of get_version or free_c_char_mem

callVars == <<pc, entry, code_ptr, path_ptr, cwd, cfg_path, config_path, tier, dirArg,
              start, current, probes, fs, lookupRes, explicitRes, fallbackRes,
              matchRes, searched, config, summary, formatterRan, exec_ret, outcome>>
memVars == <<version, heap, handed, lastFree, misuse, lastCall>>
vars == <<callVars, memVars>>

NoFree == [ptr |-> 0, len |-> 0, cap |-> 0, block_len |-> 0, block_cap |-> 0]

CallInit ==
  /\ pc = "idle" /\ entry = "none" /\ code_ptr = None /\ path_ptr = None
  /\ cwd = None /\ cfg_path = None /\ config_path = None
  /\ tier = "none" /\ dirArg = AbsPath(<<>>) /\ start = <<>> /\ current = <<>>
  /\ probes = <<>> /\ fs = NoFs /\ lookupRes = Pending
  /\ explicitRes = NotRun /\ fallbackRes = NotRun /\ matchRes = NotRun
  /\ searched = <<>> /\ config = NoConfig /\ summary = NoSummary
  /\ formatterRan = FALSE /\ exec_ret = NoOutcome /\ outcome = NoOutcome

\* The state a call starts from: nothing of an earlier call is kept.
Fresh(e, c, p, w, cp, next, out) ==
  /\ pc' = next /\ entry' = e /\ code_ptr' = c /\ path_ptr' = p
  /\ cwd' = w /\ cfg_path' = cp /\ config_path' = None
  /\ tier' = "none" /\ dirArg' = AbsPath(<<>>) /\ start' = <<>> /\ current' = <<>>
  /\ probes' = <<>> /\ fs' = NoFs /\ lookupRes' = Pending
  /\ explicitRes' = NotRun /\ fallbackRes' = NotRun /\ matchRes' = NotRun
  /\ searched' = <<>> /\ config' = NoConfig /\ summary' = NoSummary
  /\ formatterRan' = FALSE /\ exec_ret' = NoOutcome /\ outcome' = out

WorkDirs == {None} \cup {Some(d) : d \in Dirs}
CodePtrs == {None, Some("buffer")}
PathPtrs == {None} \cup {Some(p) : p \in InputPaths}

\* What the state keeps of a pointer argument: null or not.
Address(ptr) == IF ptr = None THEN None ELSE Some("set")

\* format(code, path): path is decoded first, then code; either assertion
\* panics before execute is called.
format(code, path, w) ==
  /\ pc = "idle"
  /\ LET config_str == c_str_to_safe_string(path)
         buffer == c_str_to_safe_string(code)
     IN  IF config_str.panic \/ buffer.panic
         THEN Fresh("format", Address(code), Address(path), w, None, "done",
                    Abort("assert_not_null"))
         ELSE Fresh("format", Address(code), Address(path), w, Some(config_str.str[1]),
                    "execute", NoOutcome)
  /\ UNCHANGED memVars

\* execute(buffer, cfg_path) called by a Rust caller
execute(cp, w) ==
  /\ pc = "idle"
  /\ Fresh("execute", None, None, w, cp, "execute", NoOutcome)
  /\ UNCHANGED memVars

\* execute, lines 90-100: normalise the explicit path (a file gives way to
\* its parent), then read the working directory for the fallback root.
ExecuteBegin ==
  /\ pc = "execute"
  /\ LET tp == IF cfg_path = None THEN None ELSE TomlParent(fs, cwd, cfg_path[1])
     IN  \E k \in (IF tp = None THEN {"unknown"} ELSE metadata(fs, tp[1])) :
           /\ fs' = IF tp = None THEN fs ELSE Observed(fs, tp[1], k)
           /\ config_path' = IF cfg_path = None THEN None
                             ELSE IF k = "file" THEN parent(cfg_path[1])
                             ELSE Some(cfg_path[1])
  /\ IF cwd = None
     THEN /\ pc' = "done"
          /\ outcome' = Abort("current_dir")
     ELSE /\ pc' = "match"
          /\ UNCHANGED outcome
  /\ UNCHANGED <<entry, code_ptr, path_ptr, cwd, cfg_path, tier, dirArg, start, current,
                 probes, lookupRes, explicitRes, fallbackRes, matchRes, searched,
                 config, summary, formatterRan, exec_ret>>
  /\ UNCHANGED memVars

\* match_cli_path_or_file, lines 36-37 and 42: the first resolve_config call
MatchCli ==
  /\ pc = "match"
  /\ tier' = IF config_path # None THEN "explicit" ELSE "fallback"
  /\ dirArg' = IF config_path # None THEN config_path[1] ELSE AbsPath(cwd[1])
  /\ searched' = Append(searched, tier')
  /\ pc' = "lookup"
  /\ UNCHANGED <<entry, code_ptr, path_ptr, cwd, cfg_path, config_path, start, current,
                 probes, fs, lookupRes, explicitRes, fallbackRes, matchRes,
                 config, summary, formatterRan, exec_ret, outcome>>
  /\ UNCHANGED memVars

\* lookup_project_file, lines 58-64: make the path absolute, canonicalize
LookupEnter ==
  /\ pc = "lookup"
  /\ LET r == IF is_relative(dirArg)
              THEN IF cwd = None THEN Err("NotFound")
                   ELSE canonicalize(fs, join(AbsPath(cwd[1]), dirArg))
              ELSE canonicalize(fs, dirArg)
     IN  IF r.tag = "Err"
         THEN /\ lookupRes' = r
              /\ pc' = "resolve"
              /\ start' = <<>>
              /\ current' = <<>>
         ELSE /\ start' = r.path[1]
              /\ current' = r.path[1]
              /\ pc' = "loop"
              /\ lookupRes' = Pending
  /\ probes' = <<>>
  /\ UNCHANGED <<entry, code_ptr, path_ptr, cwd, cfg_path, config_path, tier, dirArg,
                 fs, explicitRes, fallbackRes, matchRes, searched,
                 config, summary, formatterRan, exec_ret, outcome>>
  /\ UNCHANGED memVars

\* the loop body without the short circuit on a match
loop_body_no_short_circuit(cur, k) ==
  IF k = "denied" THEN [ret |-> TRUE, res |-> Err("PermissionDenied"), cur |-> cur]
  ELSE IF ~pop_ok(cur)
       THEN [ret |-> TRUE,
             res |-> IF k = "file" THEN OkPath(Append(cur, ConfigName)) ELSE OkNone,
             cur |-> cur]
  ELSE [ret |-> FALSE, res |-> Pending, cur |-> pop(cur)]

\* the loop body taking every probe error for NotFound
loop_body_ignores_errors(cur, k) ==
  IF k = "file" THEN [ret |-> TRUE, res |-> OkPath(Append(cur, ConfigName)), cur |-> cur]
  ELSE IF ~pop_ok(cur) THEN [ret |-> TRUE, res |-> OkNone, cur |-> cur]
  ELSE [ret |-> FALSE, res |-> Pending, cur |-> pop(cur)]

\* the loop body without the is_file guard: a directory is a match too
loop_body_dir_matches(cur, k) ==
  IF k \in {"file", "dir"} THEN [ret |-> TRUE, res |-> OkPath(Append(cur, ConfigName)), cur |-> cur]
  ELSE IF k = "denied" THEN [ret |-> TRUE, res |-> Err("PermissionDenied"), cur |-> cur]
  ELSE IF ~pop_ok(cur) THEN [ret |-> TRUE, res |-> OkNone, cur |-> cur]
  ELSE [ret |-> FALSE, res |-> Pending, cur |-> pop(cur)]

\* lookup_project_file, lines 67-85: the body of the loop for the probe
\* result k in the directory cur.  Only a regular file is a match; an error
\* other than NotFound is returned; otherwise the search moves to the parent
\* and is over when there is none.
loop_body(cur, k) ==
  IF k = "file" THEN [ret |-> TRUE, res |-> OkPath(Append(cur, ConfigName)), cur |-> cur]
  ELSE IF k = "denied" THEN [ret |-> TRUE, res |-> Err("PermissionDenied"), cur |-> cur]
  ELSE IF ~pop_ok(cur) THEN [ret |-> TRUE, res |-> OkNone, cur |-> cur]
  ELSE [ret |-> FALSE, res |-> Pending, cur |-> pop(cur)]

\* lookup_project_file, lines 66-86: one iteration of the loop
LookupProbe ==
  /\ pc = "loop"
  /\ \E k \in metadata(fs, current) :
       LET b == loop_body(current, k)
       IN  /\ fs' = Observed(fs, current, k)
           /\ probes' = Append(probes, current)
           /\ lookupRes' = b.res
           /\ current' = b.cur
           /\ pc' = IF b.ret THEN "resolve" ELSE "loop"
  /\ UNCHANGED <<entry, code_ptr, path_ptr, cwd, cfg_path, config_path, tier, dirArg,
                 start, explicitRes, fallbackRes, matchRes, searched,
                 config, summary, formatterRan, exec_ret, outcome>>
  /\ UNCHANGED memVars

\* resolve_config, lines 46-54, after the search: the default configuration
\* when nothing was found, else open and read the file
IoOutcomes == {"ok", "open_failed", "read_failed"}

resolve_config(lr, io) ==
  IF lr.tag = "Err" THEN ResErr(lr.err)
  ELSE IF lr.path = None THEN ResOk("default", None)
  ELSE IF io # "ok" THEN ResErr(io)
  ELSE ResOk("toml", lr.path)

ResolveConfig ==
  /\ pc = "resolve"
  /\ \E io \in (IF lookupRes.tag = "Ok" /\ lookupRes.path # None THEN IoOutcomes ELSE {"ok"}) :
       LET r == resolve_config(lookupRes, io)
       IN  IF tier = "explicit"
           THEN explicitRes' = r /\ UNCHANGED fallbackRes
           ELSE fallbackRes' = r /\ UNCHANGED explicitRes
  /\ pc' = "matched"
  /\ UNCHANGED <<entry, code_ptr, path_ptr, cwd, cfg_path, config_path, tier, dirArg,
                 start, current, probes, fs, lookupRes, matchRes, searched,
                 config, summary, formatterRan, exec_ret, outcome>>
  /\ UNCHANGED memVars

\* the explicit result never returned: every successful explicit search
\* falls through to the fallback root
falls_back_always(res) == res.tag = "Ok"

\* match_cli_path_or_file, lines 37-41: an error of the explicit search is
\* returned by try!, a result with a path is returned, anything else falls
\* through to the search from input_file
falls_back(res) == res.tag = "Ok" /\ ~(res.path # None)

\* match_cli_path_or_file, lines 37-42, after a resolve_config call returned
MatchReturn ==
  /\ pc = "matched"
  /\ IF tier = "explicit" /\ falls_back(explicitRes)
     THEN /\ tier' = "fallback"
          /\ dirArg' = AbsPath(cwd[1])
          /\ searched' = Append(searched, "fallback")
          /\ pc' = "lookup"
          /\ UNCHANGED <<matchRes, fs>>
     ELSE /\ matchRes' = IF tier = "explicit" THEN explicitRes ELSE fallbackRes
          /\ pc' = "finish"
          /\ dirArg' = AbsPath(<<>>)
          \* the file system is not read again by this call
          /\ fs' = NoFs
          /\ UNCHANGED <<tier, searched>>
  \* the locals of the lookup_project_file call that returned are gone
  /\ start' = <<>> /\ current' = <<>> /\ probes' = <<>> /\ lookupRes' = Pending
  /\ UNCHANGED <<entry, code_ptr, path_ptr, cwd, cfg_path, config_path,
                 explicitRes, fallbackRes,
                 config, summary, formatterRan, exec_ret, outcome>>
  /\ UNCHANGED memVars

\* execute, lines 100-107: expect on the resolution, force the write mode,
\* run the formatter and map its summary
ExecuteFinish ==
  /\ pc = "finish"
  /\ IF matchRes.tag = "Err"
     THEN /\ outcome' = Abort("expect")
          /\ pc' = "done"
          /\ UNCHANGED <<config, summary, formatterRan, exec_ret>>
     ELSE \E s \in Summaries, flushOk \in BOOLEAN :
            /\ config' = [source |-> matchRes.cfg, write_mode |-> "Plain"]
            /\ summary' = s
            /\ formatterRan' = TRUE
            /\ LET r == process_summary(s, flushOk)
               IN  IF r.kind = "abort"
                   THEN outcome' = r /\ pc' = "done" /\ UNCHANGED exec_ret
                   ELSE exec_ret' = r /\ pc' = "return" /\ UNCHANGED outcome
  \* the paths were moved into match_cli_path_or_file and its results are
  \* consumed; an error stays in the panic
  /\ tier' = "none" /\ cwd' = None /\ cfg_path' = None /\ config_path' = None
  /\ explicitRes' = NotRun /\ fallbackRes' = NotRun
  /\ matchRes' = IF matchRes.tag = "Err" THEN matchRes ELSE NotRun
  /\ UNCHANGED <<entry, code_ptr, path_ptr, dirArg, fs,
                 start, current, probes, lookupRes, searched>>
  /\ UNCHANGED memVars

\* format, line 192 (and the return of execute to a Rust caller): the
\* status of execute is the value of the call
format_return(r) == r

Return ==
  /\ pc = "return"
  /\ outcome' = format_return(exec_ret)
  /\ pc' = "done"
  /\ UNCHANGED <<entry, code_ptr, path_ptr, cwd, cfg_path, config_path, tier, dirArg,
                 start, current, probes, fs, lookupRes, explicitRes, fallbackRes,
                 matchRes, searched, config, summary, formatterRan, exec_ret>>
  /\ UNCHANGED memVars

\* The call is over; the next one starts from scratch.
CallEnd ==
  /\ pc = "done"
  /\ Fresh("none", None, None, None, None, "idle", NoOutcome)
  /\ UNCHANGED memVars

\* ------------------------------------------------------------ the C strings
NULL == 0
Addrs == 1..MaxAddr
VersionBytes == {46, 49}
Unknown == <<117, 110, 107, 110, 111, 119, 110>>
Versions == {None} \cup {Some(v) : v \in (SeqsUpTo(VersionBytes, MaxVerLen) \ {<<>>})}

NoBlock == [live |-> FALSE, bytes |-> <<>>, cap |-> 0]
Live(h) == {a \in Addrs : h[a].live}

\* CString::new(s).unwrap(): no interior NUL, then the bytes and the
\* terminator in a block of exactly that size
CString_new(s) ==
  IF \E i \in 1..Len(s) : s[i] = 0
  THEN [panic |-> TRUE, block |-> NoBlock]
  ELSE [panic |-> FALSE,
        block |-> [live |-> TRUE, bytes |-> Append(s, 0), cap |-> Len(s) + 1]]

\* the length without the terminator (to_bytes instead of to_bytes_with_nul)
to_bytes_len(bytes) ==
  (CHOOSE i \in 1..Len(bytes) : bytes[i] = 0 /\ \A j \in 1..(i - 1) : bytes[j] # 0) - 1

\* CStr::from_ptr(c).to_bytes_with_nul().len(): the bytes up to and
\* including the first NUL
to_bytes_with_nul_len(bytes) ==
  (CHOOSE i \in 1..Len(bytes) : bytes[i] = 0 /\ \A j \in 1..(i - 1) : bytes[j] # 0)

\* to_c_str: the block is forgotten by Rust and its address returned
to_c_str(s, a) ==
  LET c == CString_new(s)
  IN  /\ ~c.panic
      /\ heap' = [heap EXCEPT ![a] = c.block]
      /\ handed' = handed \cup {a}
      /\ lastCall' = [op |-> "get_version", arg |-> a]

\* get_version: the package version, "unknown" when the build has none
get_version ==
  /\ \E a \in Addrs \ Live(heap) :
       to_c_str(IF version = None THEN Unknown ELSE version[1], a)
  /\ UNCHANGED <<version, lastFree, misuse>>
  /\ UNCHANGED callVars

\* the null test missing
is_null_never(c) == FALSE

\* <*mut c_char>::is_null
is_null(c) == c = NULL

\* free_c_char_mem(c): nothing for the null pointer; else the block is
\* rebuilt as a Vec of the measured length and capacity and dropped.  A
\* pointer that is not live (released before, or never returned) is undefined
\* behaviour: any live block may be lost with it.
free_c_char_mem(c) ==
  /\ lastCall' = [op |-> "free_c_char_mem", arg |-> c]
  /\ IF is_null(c)
     THEN UNCHANGED <<heap, handed, lastFree, misuse>>
     ELSE IF c \in Live(heap)
     THEN LET bytes_len == to_bytes_with_nul_len(heap[c].bytes)
          IN  /\ lastFree' = [ptr |-> c, len |-> bytes_len, cap |-> bytes_len,
                              block_len |-> Len(heap[c].bytes), block_cap |-> heap[c].cap]
              /\ heap' = [heap EXCEPT ![c] = NoBlock]
              /\ handed' = handed \ {c}
              /\ UNCHANGED misuse
     ELSE /\ misuse' = TRUE
          /\ \E lost \in SUBSET Live(heap) :
               /\ Cardinality(lost) <= 1
               /\ heap' = [a \in Addrs |-> IF a \in lost THEN NoBlock ELSE heap[a]]
          /\ UNCHANGED <<handed, lastFree>>
  /\ UNCHANGED version
  /\ UNCHANGED callVars

MemInit0 ==
  /\ heap = [a \in Addrs |-> NoBlock] /\ handed = {} /\ lastFree = NoFree /\ misuse = FALSE
  /\ lastCall = [op |-> "none", arg |-> NULL]

Init == CallInit /\ MemInit0 /\ version = None

Next ==
  \/ \E c \in CodePtrs, p \in PathPtrs, w \in WorkDirs : format(c, p, w)
  \/ \E cp \in {None} \cup {Some(p) : p \in InputPaths}, w \in WorkDirs : execute(cp, w)
  \/ ExecuteBegin
  \/ MatchCli
  \/ LookupEnter
  \/ LookupProbe
  \/ ResolveConfig
  \/ MatchReturn
  \/ ExecuteFinish
  \/ Return
  \/ CallEnd

Spec == Init /\ [][Next]_vars

\* The bridge's strings: any build, any order of get_version and releases.
MemInit == CallInit /\ MemInit0 /\ version \in Versions

MemNext ==
  \/ get_version
  \/ \E c \in {NULL} \cup Addrs : free_c_char_mem(c)

MemSpec == MemInit /\ [][MemNext]_vars

\* ----------------------------------------------------------------- claims
chain == Chain(start)
TierRes == IF tier = "explicit" THEN explicitRes ELSE fallbackRes

\* the running search has entered its loop
InSearch == pc = "loop" \/ (pc \in {"resolve", "matched"} /\ probes # <<>>)
\* the running search has left its loop with a result
SearchOver == pc \in {"resolve", "matched"} /\ probes # <<>>

\* the i-th directory of the chain holds an entry of kind k and every nearer
\* one holds none, or a directory of that name
NearestAt(i, k) ==
  /\ KindOf(fs, chain[i]) = k
  /\ \A j \in 1..(i - 1) : KindOf(fs, chain[j]) \in {"absent", "dir"}

\* C1: a search that is over returns <A>/rustfmt.toml for the nearest
\* ancestor A of the start that holds a regular file of that name when no
\* probe error comes before it, it has probed exactly the directories from the
\* start to A, and it returns a path in no other case.
C1_NearestRegularFileWins ==
  SearchOver =>
    /\ \A i \in 1..Len(chain) :
         NearestAt(i, "file") =>
           /\ lookupRes = OkPath(Append(chain[i], ConfigName))
           /\ probes = SubSeq(chain, 1, i)
    /\ lookupRes.path # None => \E i \in 1..Len(chain) : NearestAt(i, "file")

C1_Witness ==
  /\ SearchOver
  /\ lookupRes.path # None
  /\ Len(probes) = 2
  /\ Len(start) >= 2
  /\ KindOf(fs, start) = "dir"

\* C2: whenever the formatter has run, the status returned by process_summary
\* is 1 if operational is set, else 2 if parsing is set, else 3 if formatting
\* is set, else 0; every combination of the flags yields a status unless the
\* flush fails, and the has_no_errors assertion never fails.
C2_StatusByPriority ==
  formatterRan =>
    /\ outcome.at # "assert_no_errors"
    /\ exec_ret.kind = "status" \/ outcome.at = "flush"
    /\ exec_ret.kind = "status" =>
         /\ summary.operational => exec_ret.code = 1
         /\ ~summary.operational /\ summary.parsing => exec_ret.code = 2
         /\ ~summary.operational /\ ~summary.parsing /\ summary.formatting => exec_ret.code = 3
         /\ ~summary.operational /\ ~summary.parsing /\ ~summary.formatting => exec_ret.code = 0

C2_Witness ==
  /\ formatterRan
  /\ ~summary.operational /\ summary.parsing /\ summary.formatting
  /\ outcome = Status(2)

\* the directory of the explicit path when that path names rustfmt.toml
ExplicitParent == IF cfg_path = None THEN None ELSE TomlParent(NoFs, cwd, cfg_path[1])

\* the explicit path names a regular file
ExplicitIsFile == ExplicitParent # None /\ KindOf(fs, ExplicitParent[1]) = "file"

FallbackSearched == \E i \in 1..Len(searched) : searched[i] = "fallback"

\* C3: an explicit path that is a file is replaced by its parent as search
\* root; an explicit search that finds a config file gives the overall result
\* and the fallback root is not searched; the fallback root is searched only
\* when no explicit path was given or the explicit search ended with 'not
\* found', and its result is then the overall result.
C3_TwoTierResolution ==
  /\ pc \in {"match", "lookup", "loop", "resolve", "matched"} /\ cfg_path # None =>
       /\ config_path = IF ExplicitIsFile THEN parent(cfg_path[1]) ELSE cfg_path
       /\ searched # <<>> => Head(searched) = "explicit"
  /\ tier = "explicit" /\ InSearch /\ ExplicitIsFile => start = ExplicitParent[1]
  /\ pc \in {"lookup", "loop", "resolve", "matched", "finish"} /\ FallbackSearched =>
       \/ cfg_path = None /\ searched = <<"fallback">>
       \/ explicitRes = ResOk("default", None) /\ searched = <<"explicit", "fallback">>
  /\ pc = "finish" =>
       /\ explicitRes.tag = "Ok" /\ explicitRes.path # None =>
            /\ matchRes = explicitRes
            /\ searched = <<"explicit">>
            /\ fallbackRes = NotRun
       /\ FallbackSearched => matchRes = fallbackRes

C3_Witness ==
  /\ pc = "finish"
  /\ ExplicitParent # None
  /\ explicitRes = ResOk("toml", Some(Append(ExplicitParent[1], ConfigName)))
  /\ matchRes = explicitRes
  /\ fallbackRes = NotRun

\* C4: when the nearest entry that is not absent or a directory is a probe
\* error other than NotFound, the search returns that error and has probed
\* nothing beyond the failing ancestor.
C4_ProbeErrorAborts ==
  SearchOver =>
    \A i \in 1..Len(chain) :
      NearestAt(i, "denied") =>
        /\ lookupRes = Err("PermissionDenied")
        /\ probes = SubSeq(chain, 1, i)

C4_Witness ==
  /\ SearchOver
  /\ lookupRes.tag = "Err"
  /\ Len(probes) = 2
  /\ Len(start) >= 2

\* C5: as long as no pointer is released twice, the live blocks are exactly
\* the pointers handed out and not yet released, every block has the length
\* and capacity of its string plus the terminator, and the last release
\* rebuilt its block with exactly the block's length and capacity.
C5_ReleaseMatchesAllocation ==
  ~misuse =>
    /\ Live(heap) = handed
    /\ \A a \in Live(heap) :
         /\ heap[a].cap = Len(heap[a].bytes)
         /\ Len(heap[a].bytes) = Len(IF version = None THEN Unknown ELSE version[1]) + 1
    /\ lastFree.ptr # NULL =>
         /\ lastFree.len = lastFree.block_len
         /\ lastFree.cap = lastFree.block_cap
         /\ lastFree.len = Len(IF version = None THEN Unknown ELSE version[1]) + 1

C5_Witness ==
  /\ ~misuse
  /\ lastCall.op = "free_c_char_mem"
  /\ lastFree.ptr # NULL
  /\ lastFree.len = MaxVerLen + 1
  /\ handed = {}
  /\ Live(heap) = {}

\* C6: a call whose config resolution ended with a filesystem error still
\* ends with a status code.
C6_ResolutionErrorsYieldStatus ==
  pc = "done" /\ matchRes.tag = "Err" => outcome.kind = "status"

\* C7: a call of format with a null code or path pointer ends at the
\* assertion: no status, no config search, no formatter run; with both
\* pointers set it hands the path to execute and ends with execute's status.
C7_NullPointerAborts ==
  entry = "format" =>
    /\ code_ptr = None \/ path_ptr = None =>
         /\ pc = "done"
         /\ outcome = Abort("assert_not_null")
         /\ exec_ret = NoOutcome
         /\ searched = <<>> /\ fs = NoFs
         /\ ~formatterRan
    /\ code_ptr # None /\ path_ptr # None =>
         /\ outcome.at # "assert_not_null"
         /\ pc \in {"execute", "match", "lookup", "loop", "resolve", "matched", "finish"} =>
              cfg_path # None
         /\ pc = "done" /\ (outcome.kind = "status" \/ exec_ret.kind = "status") =>
              outcome = exec_ret

C7_Witness ==
  /\ entry = "format"
  /\ code_ptr = None /\ path_ptr # None
  /\ outcome = Abort("assert_not_null")

\* C8: when rustfmt.toml is a directory in every directory of the ancestor
\* chain, the search probes the whole chain and returns Ok(None), and
\* resolve_config yields the default configuration with no path.
C8_DirectoriesAreNotFound ==
  SearchOver /\ (\A i \in 1..Len(chain) : KindOf(fs, chain[i]) = "dir") =>
    /\ lookupRes = OkNone
    /\ probes = chain
    /\ pc = "matched" => TierRes = ResOk("default", None)

C8_Witness ==
  /\ pc = "matched"
  /\ probes # <<>>
  /\ Len(start) >= 2
  /\ \A i \in 1..Len(chain) : KindOf(fs, chain[i]) = "dir"

\* C9: a call of free_c_char_mem with the null pointer changes neither the
\* blocks nor the pointers handed out, and is no misuse.
C9_FreeNullIsNoOp ==
  [][lastCall'.op = "free_c_char_mem" /\ lastCall'.arg = NULL =>
       UNCHANGED <<heap, handed, lastFree, misuse>>]_vars

C9_Witness ==
  /\ lastCall = [op |-> "free_c_char_mem", arg |-> NULL]
  /\ Live(heap) # {}
  /\ lastFree.ptr # NULL
  /\ ~misuse

\* C10: a search from depth d probes a prefix of the ancestor chain of its
\* start, in order, so at most d+1 directories and none twice; while the loop
\* runs at most d probes are made and the next one is the next of the chain;
\* 'not found' is reported only with the whole chain probed, root last.
C10_BoundedOrderedProbes ==
  InSearch =>
    /\ Len(probes) <= Len(start) + 1
    /\ probes = SubSeq(chain, 1, Len(probes))
    /\ pc = "loop" =>
         /\ Len(probes) <= Len(start)
         /\ current = chain[Len(probes) + 1]
    /\ pc # "loop" /\ lookupRes = OkNone =>
         /\ probes = chain
         /\ probes[Len(probes)] = <<>>

C10_Witness ==
  /\ SearchOver
  /\ lookupRes = OkNone
  /\ Len(start) >= 2
  /\ Len(probes) = Len(start) + 1

====
